---- MODULE Spec2Model ----
(***************************************************************************)
(* State-machine model of bin/splitSeedCluster.py and of                   *)
(* bin/flag_top_proteins.py (ProtHint).  split() runs                      *)
(* loadSeeds, makeSeedBorders, computeCoverage, getMeanCDSCoverage,        *)
(* labelBlocks, assignSeedsToSubsclusters, printSubClusters and printPairs *)
(* in this order over one cluster file; main() of flag_top_proteins.py     *)
(* runs loadTopPairs and flagHints.                                        *)
(*                                                                         *)
(* Representation.  A Python dict (seeds) is the sequence of its values in *)
(* insertion order, each value carrying its key (id).  A Python list is a  *)
(* sequence.  A float score is a binary floating-point number with         *)
(* MantBits significant bits and round-to-nearest-even (IEEE-754 doubles   *)
(* have 53; the rounding rule is the same).  The two threshold ratios and  *)
(* the baseline are exact fractions <<numerator, denominator>>.  A string  *)
(* (gene or protein name) is the sequence of its characters.               *)
(***************************************************************************)
EXTENDS Integers, Sequences, FiniteSets, TLC

\* ------------------------------------------------------------------ bounds
MaxRows == 3
MaxSortedRows == 4
MaxExonRows == 3
MantBits == 3
MaxTopN == 3
MaxDegenerateRows == 3
MaxPairRows == 2
MaxHintRows == 2

\* ------------------------------------------------------- program constants
MARGIN == 100
DefaultTopN == 25

Unset == "unset"

\* ------------------------------------------------------------- arithmetic
Min2(a, b) == IF a <= b THEN a ELSE b
Max2(a, b) == IF a >= b THEN a ELSE b

RECURSIVE Pow2(_)
Pow2(n) == IF n = 0 THEN 1 ELSE 2 * Pow2(n - 1)

\* The exponent e >= 0 of the unit 2^e in which n has at most MantBits bits.
RECURSIVE FloatExp(_, _)
FloatExp(n, e) == IF n < Pow2(MantBits + e) THEN e ELSE FloatExp(n, e + 1)

\* n rounded to the nearest representable float, ties to the even mantissa.
FRound(n) ==
  LET u == Pow2(FloatExp(n, 0))
      q == n \div u
      r == n % u
  IN  IF 2 * r > u \/ (2 * r = u /\ q % 2 = 1) THEN (q + 1) * u ELSE q * u

\* float + float
FAdd(a, b) == FRound(a + b)

\* float(text) of a row's score column
ParseFloat(text) == FRound(text)

\* ------------------------------------------------------------ data classes
\* Variant of Border that leaves the coordinate of an end border as it is.
BorderNoShift(coordinate, start) == [coordinate |-> coordinate, start |-> start]

Border(coordinate, start) ==
  [coordinate |-> IF start THEN coordinate ELSE coordinate + 1, start |-> start]

BorderLt(a, b) == a.coordinate < b.coordinate

\* Variant of Block that stores the inclusive end.
BlockInclusiveEnd(start, end, coverage) ==
  [start |-> start, end |-> end - 1, coverage |-> coverage, state |-> ""]

Block(start, end, coverage) ==
  [start |-> start, end |-> end, coverage |-> coverage, state |-> ""]

SubCluster(start, index) ==
  [start |-> start, end |-> Unset, index |-> index, seeds |-> <<>>]

\* Variant of close that stores the coordinate after the end.
closeExclusive(sc, end) == [sc EXCEPT !.end = end + 1]

close(sc, end) == [sc EXCEPT !.end = end]

addSeed(sc, seed) == [sc EXCEPT !.seeds = Append(@, seed)]

Seed(id, start, end, score) ==
  [id |-> id, start |-> start, end |-> end, score |-> score]

updateSeed(seed, start, end, score) ==
  [seed EXCEPT !.start = Min2(@, start),
               !.end = Max2(@, end),
               !.score = FAdd(@, score)]

SeedLt(a, b) == a.score < b.score

\* -------------------------------------------------------------- list.sort
\* Python's list.sort is stable: an element is placed after every element
\* that is not greater than it.
RECURSIVE InsertBorder(_, _, _)
InsertBorder(sorted, b, i) ==
  IF i = 0 \/ ~BorderLt(b, sorted[i])
  THEN SubSeq(sorted, 1, i) \o <<b>> \o SubSeq(sorted, i + 1, Len(sorted))
  ELSE InsertBorder(sorted, b, i - 1)

RECURSIVE SortBorders(_)
SortBorders(s) ==
  IF s = <<>> THEN <<>>
  ELSE LET front == SortBorders(SubSeq(s, 1, Len(s) - 1))
       IN  InsertBorder(front, s[Len(s)], Len(front))

\* list.sort(reverse=True) is stable too: descending, equal elements in
\* their original order.
RECURSIVE InsertSeedDesc(_, _, _)
InsertSeedDesc(sorted, sd, i) ==
  IF i = 0 \/ ~SeedLt(sorted[i], sd)
  THEN SubSeq(sorted, 1, i) \o <<sd>> \o SubSeq(sorted, i + 1, Len(sorted))
  ELSE InsertSeedDesc(sorted, sd, i - 1)

RECURSIVE SortSeedsReverse(_)
SortSeedsReverse(s) ==
  IF s = <<>> THEN <<>>
  ELSE LET front == SortSeedsReverse(SubSeq(s, 1, Len(s) - 1))
       IN  InsertSeedDesc(front, s[Len(s)], Len(front))

\* --------------------------------------------------------------- loadSeeds
KeyIndex(seedMap, id) ==
  IF \E i \in 1..Len(seedMap) : seedMap[i].id = id
  THEN CHOOSE i \in 1..Len(seedMap) : seedMap[i].id = id
  ELSE 0

\* One iteration of loadSeeds' loop on the seed mapping.
AddRow(seedMap, row) ==
  LET k == KeyIndex(seedMap, row.id)
  IN  IF k = 0
      THEN Append(seedMap, Seed(row.id, row.start, row.end, ParseFloat(row.score)))
      ELSE [seedMap EXCEPT ![k] = updateSeed(@, row.start, row.end,
                                             ParseFloat(row.score))]

RowBorders(row) == <<Border(row.start, TRUE), Border(row.end, FALSE)>>

RECURSIVE LoadAll(_)
LoadAll(rows) ==
  IF rows = <<>> THEN <<>>
  ELSE AddRow(LoadAll(SubSeq(rows, 1, Len(rows) - 1)), rows[Len(rows)])

\* ---------------------------------------------------------- makeSeedBorders
RECURSIVE SeedBorderList(_)
SeedBorderList(seedMap) ==
  IF seedMap = <<>> THEN <<>>
  ELSE SeedBorderList(SubSeq(seedMap, 1, Len(seedMap) - 1))
       \o <<Border(seedMap[Len(seedMap)].start, TRUE),
            Border(seedMap[Len(seedMap)].end, FALSE)>>

makeSeedBordersOp(seedMap) == SortBorders(SeedBorderList(seedMap))

\* ---------------------------------------------------------- computeCoverage
\* The loop of computeCoverage from border i on.  meanCoverage, a float the
\* caller never reads, is left out.
RECURSIVE CoverageSweep(_, _, _, _, _, _)
CoverageSweep(borders, i, coverage, blks, prevCoordinate, maxCov) ==
  IF i > Len(borders)
  THEN [blocks |-> blks, maxCoverage |-> maxCov]
  ELSE LET border == borders[i]
           moved == border.coordinate # prevCoordinate
           extend == moved /\ Len(blks) # 0 /\ blks[Len(blks)].coverage = coverage
           blks2 == IF ~moved THEN blks
                    ELSE IF extend
                    THEN [blks EXCEPT ![Len(blks)].end = border.coordinate]
                    ELSE Append(blks, Block(prevCoordinate, border.coordinate, coverage))
           max2 == IF moved /\ ~extend /\ coverage > maxCov THEN coverage ELSE maxCov
           cov2 == IF border.start THEN coverage + 1 ELSE coverage - 1
       IN  CoverageSweep(borders, i + 1, cov2, blks2, border.coordinate, max2)

computeCoverageOp(borders) ==
  CoverageSweep(borders, 1, 0, <<>>, borders[1].coordinate, 0)

\* ------------------------------------------------------- getMeanCDSCoverage
\* The loop of getMeanCDSCoverage; the result is <<meanCoverage, CDSArea>>,
\* the two operands of the final division.
RECURSIVE CDSSweep(_, _, _, _, _, _)
CDSSweep(borders, i, coverage, prevCoordinate, meanCov, area) ==
  IF i > Len(borders)
  THEN <<meanCov, area>>
  ELSE LET border == borders[i]
           counted == border.coordinate # prevCoordinate /\ coverage # 0
           span == border.coordinate - prevCoordinate
           cov2 == IF border.start THEN coverage + 1 ELSE coverage - 1
       IN  CDSSweep(borders, i + 1, cov2, border.coordinate,
                    IF counted THEN meanCov + span * coverage ELSE meanCov,
                    IF counted THEN area + span ELSE area)

getMeanCDSCoverageOp(borders) ==
  CDSSweep(borders, 1, 0, borders[1].coordinate, 0, 0)

\* --------------------------------------------------------------- labelBlocks
\* int(lowThreshold * baseline) and math.ceil(highThreshold * baseline), for
\* a ratio r = <<numerator, denominator>> and a baseline b = <<meanCoverage,
\* CDSArea>>, both non-negative.
IntOfProduct(r, b) == (r[1] * b[1]) \div (r[2] * b[2])

CeilOfProduct(r, b) == (r[1] * b[1] + r[2] * b[2] - 1) \div (r[2] * b[2])

\* Variants of IsLow: strictly below low; up to one above low.
IsLowStrict(block, lowThresholdInt) == block.coverage < lowThresholdInt

IsLowOffByOne(block, lowThresholdInt) == block.coverage <= lowThresholdInt + 1

IsLow(block, lowThresholdInt) == block.coverage <= lowThresholdInt

IsHigh(block, highThresholdInt) == block.coverage >= highThresholdInt

\* Variant of NextIndex that numbers from len(subClusters).
NextIndexFromZero(subs) == Len(subs)

\* The new sub-cluster's index, len(subClusters) + 1.
NextIndex(subs) == Len(subs) + 1

\* Variant of FinishSubClusters that prepends sub-cluster 0 in every case.
FinishAlwaysPrepend(subs, blks) ==
  <<close(SubCluster(blks[1].start, 0), blks[Len(blks)].end - 1)>>
  \o [subs EXCEPT ![Len(subs)] = close(@, blks[Len(blks)].end - 1)]

\* Lines 205-216: close the last sub-cluster, then renumber or prepend.
FinishSubClusters(subs, blks) ==
  LET closed == [subs EXCEPT ![Len(subs)] = close(@, blks[Len(blks)].end - 1)]
  IN  IF Len(closed) = 1
      THEN [closed EXCEPT ![1].index = 0]
      ELSE <<close(SubCluster(blks[1].start, 0), blks[Len(blks)].end - 1)>> \o closed

\* ------------------------------------------------ assignSeedsToSubsclusters
\* Variant of StartsBefore without the margin.
StartsBeforeNoMargin(seed, sc) == seed.start < sc.start

StartsBefore(seed, sc) == seed.start < sc.start - MARGIN

\* Variant of StartsAfter that starts after the margin behind the end.
StartsAfterMargin(seed, sc) == seed.start > sc.end + MARGIN

StartsAfter(seed, sc) == seed.start > sc.end

\* Variant of EndsWithin with the margin's last base left out.
EndsWithinStrict(seed, sc) == seed.end < sc.end + MARGIN

EndsWithin(seed, sc) == seed.end <= sc.end + MARGIN

\* Variant of DelKey that leaves the mapping as it is.
DelKeyKeep(seedMap, key) == seedMap

\* del seeds[key]
DelKey(seedMap, key) ==
  LET k == KeyIndex(seedMap, key)
  IN  SubSeq(seedMap, 1, k - 1) \o SubSeq(seedMap, k + 1, Len(seedMap))

Keys(seedMap) == [i \in 1..Len(seedMap) |-> seedMap[i].id]

\* The inner loop over list(seeds.keys()), from key i on, for one sub-cluster.
RECURSIVE AssignLoop(_, _, _, _)
AssignLoop(sc, keys, i, seedMap) ==
  IF i > Len(keys)
  THEN [subcluster |-> sc, seeds |-> seedMap]
  ELSE LET key == keys[i]
           seed == seedMap[KeyIndex(seedMap, key)]
       IN  IF sc.index = 0
           THEN AssignLoop(addSeed(sc, seed), keys, i + 1, seedMap)
           ELSE IF StartsBefore(seed, sc)
           THEN AssignLoop(sc, keys, i + 1, DelKey(seedMap, key))
           ELSE IF StartsAfter(seed, sc)
           THEN AssignLoop(sc, keys, i + 1, seedMap)
           ELSE AssignLoop(IF EndsWithin(seed, sc) THEN addSeed(sc, seed) ELSE sc,
                           keys, i + 1, DelKey(seedMap, key))

AssignPass(sc, seedMap) == AssignLoop(sc, Keys(seedMap), 1, seedMap)

\* --------------------------------------------------------- printSubClusters
\* SubCluster.printToFile: nothing for a sub-cluster without seeds.
RegionLine(sc) == [start |-> sc.start, end |-> sc.end, index |-> sc.index]

RECURSIVE RegionLines(_)
RegionLines(subs) ==
  IF subs = <<>> THEN <<>>
  ELSE LET front == RegionLines(SubSeq(subs, 1, Len(subs) - 1))
           last == subs[Len(subs)]
       IN  IF Len(last.seeds) = 0 THEN front ELSE Append(front, RegionLine(last))

\* --------------------------------------------------------------- printPairs
\* round(score, 2): the scores of the model are whole numbers, which
\* rounding to two decimals leaves as they are.
Round2(score) == score

PairLine(seed, index) ==
  [index |-> index, id |-> seed.id, score |-> Round2(seed.score)]

\* The loop stops after writing the seed whose position (from 0) is topN - 1.
StopAfter(counter, n) == counter = n - 1

\* for counter, seed in enumerate(subCluster.seeds), from position counter on.
RECURSIVE WritePairs(_, _, _, _, _)
WritePairs(sorted, counter, index, n, out) ==
  IF counter >= Len(sorted) THEN out
  ELSE LET out2 == Append(out, PairLine(sorted[counter + 1], index))
       IN  IF StopAfter(counter, n) THEN out2
           ELSE WritePairs(sorted, counter + 1, index, n, out2)

\* ------------------------------------------------------------------- state
VARIABLES
  pc,               \* the statement of split() to run next
  file,             \* the rows of the cluster file
  lowThreshold,     \* --lowThreshold
  highThreshold,    \* --highThreshold
  topN,             \* --maxProteinsPerSeed
  ri,               \* rows of the file read so far
  seeds,            \* the seed mapping
  CDSBorders,
  seedBorders,
  blocks,
  maxCoverage,
  meanCDSCoverage,  \* <<meanCoverage, CDSArea>> of getMeanCDSCoverage
  state,            \* labelBlocks' state
  bi,               \* blocks labelBlocks has processed
  subClusters,
  si,               \* sub-clusters the running loop has processed
  opened,           \* the output files opened so far
  seedRegions,      \* lines written to --seedRegions
  alignmentPairs,   \* lines written to --alignmentPairs
  fpc,              \* the statement of flag_top_proteins' main() to run next
  diamondPairs,     \* the rows of the DIAMOND pairs file
  hints,            \* the rows of the hints file
  pri,              \* rows of the pairs file read so far
  prevGene,
  topPairs,
  hi,               \* rows of the hints file read so far
  printed           \* rows printed to standard output

\* The variables of flag_top_proteins.py and those of splitSeedCluster.py.
flagVars == <<fpc, diamondPairs, hints, pri, prevGene, topPairs, hi, printed>>

splitVars == <<pc, file, lowThreshold, highThreshold, topN, ri, seeds, CDSBorders,
               seedBorders, blocks, maxCoverage, meanCDSCoverage, state, bi,
               subClusters, si, opened, seedRegions, alignmentPairs>>

vars == <<splitVars, flagVars>>

\* ------------------------------------------------------------------ inputs
\* Coordinates one MARGIN and one MARGIN + 1 apart.
Coords == {1, 101, 201, 202}

\* Coordinates of the files whose rows come in any order; an interval that
\* ends at 101 and one that starts at 102 put two borders on coordinate 102.
CoarseCoords == {1, 101, 102}

ExonCoords == {1, 3}

ExonIds == {1, 2}

\* Score columns: whole numbers; 8 + 1 needs more than three bits.
RowScores == {1, 8}

DefaultLowThreshold == <<1, 10>>

DefaultHighThreshold == <<2, 10>>

\* --lowThreshold and --highThreshold: the defaults, 1 and 1.5, and 1 and 0.5
\* (high below low).
ThresholdPairs ==
  { <<DefaultLowThreshold, DefaultHighThreshold>>, << <<1, 1>>, <<3, 2>> >>,
    << <<1, 1>>, <<1, 2>> >> }

Intervals(C) == {iv \in C \X C : iv[1] <= iv[2]}

IntervalLe(a, b) == a[1] < b[1] \/ (a[1] = b[1] /\ a[2] <= b[2])

\* One row per seed: the seed identifier is the row's number.
SeedRows(f) ==
  [i \in DOMAIN f |-> [id |-> i, start |-> f[i][1], end |-> f[i][2], score |-> 1]]

\* Files of up to MaxRows rows in any order, and of up to MaxSortedRows rows
\* sorted by start and end.
SeedFiles ==
  {SeedRows(f) : f \in UNION {[1..n -> Intervals(CoarseCoords)] : n \in 0..MaxRows}}
  \cup
  {SeedRows(f) : f \in
     {g \in UNION {[1..n -> Intervals(Coords)] : n \in 0..MaxSortedRows} :
        \A i \in 1..(Len(g) - 1) : IntervalLe(g[i], g[i + 1])}}

\* Files whose rows share seed identifiers (exons of one seed).
ExonRows ==
  {r \in [id : ExonIds, start : ExonCoords, end : ExonCoords, score : RowScores] :
     r.start <= r.end}

ExonFiles == UNION {[1..n -> ExonRows] : n \in 0..MaxExonRows}

\* Rows that may be empty intervals (end = start - 1): an empty interval puts
\* its two borders on one coordinate and covers nothing.
DegenerateRows ==
  {r \in [id : ExonIds, start : ExonCoords, end : 0..3, score : {1}] :
     r.start <= r.end + 1}

DegenerateFiles == UNION {[1..n -> DegenerateRows] : n \in 0..MaxDegenerateRows}

\* Gene and protein names; a name may hold the character "_".
Names == { <<"a">>, <<"b">>, <<"a", "_", "a">> }

PairRows == [query : Names, target : Names]

\* Pairs files sorted by query: the rows of one query are adjacent.
PairFiles ==
  {f \in UNION {[1..n -> PairRows] : n \in 0..MaxPairRows} :
     \A i, j \in DOMAIN f :
       (i < j /\ f[i].query = f[j].query) =>
         \A k \in i..j : f[k].query = f[i].query}

\* The ninth column of a hints row: its seed_gene_id and prot attributes.
HintRows == [seed_gene_id : Names, prot : Names]

HintFiles == UNION {[1..n -> HintRows] : n \in 0..MaxHintRows}

\* flag_top_proteins' main() before its first statement.
InitFlagRun ==
  /\ fpc = "loadTopPairs"
  /\ pri = 0
  /\ prevGene = <<>>
  /\ topPairs = {}
  /\ hi = 0
  /\ printed = <<>>

\* flag_top_proteins.py is not run.
FlagIdle ==
  /\ diamondPairs = <<>>
  /\ hints = <<>>
  /\ InitFlagRun

InitRun ==
  /\ pc = "loadSeeds"
  /\ ri = 0
  /\ seeds = <<>>
  /\ CDSBorders = <<>>
  /\ seedBorders = <<>>
  /\ blocks = <<>>
  /\ maxCoverage = 0
  /\ meanCDSCoverage = <<0, 0>>
  /\ state = "start"
  /\ bi = 0
  /\ subClusters = <<>>
  /\ si = 0
  /\ opened = {}
  /\ seedRegions = <<>>
  /\ alignmentPairs = <<>>

Init ==
  /\ file \in SeedFiles
  /\ \E tp \in ThresholdPairs : lowThreshold = tp[1] /\ highThreshold = tp[2]
  /\ topN = DefaultTopN
  /\ InitRun
  /\ FlagIdle

InitExons ==
  /\ file \in ExonFiles
  /\ \E tp \in ThresholdPairs : lowThreshold = tp[1] /\ highThreshold = tp[2]
  /\ topN \in (0..MaxTopN) \cup {DefaultTopN}
  /\ InitRun
  /\ FlagIdle

InitDegenerate ==
  /\ file \in DegenerateFiles
  /\ lowThreshold = DefaultLowThreshold
  /\ highThreshold = DefaultHighThreshold
  /\ topN = DefaultTopN
  /\ InitRun
  /\ FlagIdle

\* ----------------------------------------------------------------- actions
\* loadSeeds, one row of the file (lines 96-105).
loadSeedsRow ==
  /\ pc = "loadSeeds"
  /\ ri < Len(file)
  /\ ri' = ri + 1
  /\ seeds' = AddRow(seeds, file[ri + 1])
  /\ CDSBorders' = CDSBorders \o RowBorders(file[ri + 1])
  /\ UNCHANGED <<pc, file, lowThreshold, highThreshold, topN, seedBorders, blocks,
                 maxCoverage, meanCDSCoverage, state, bi, subClusters, si,
                 opened, seedRegions, alignmentPairs>>
  /\ UNCHANGED flagVars

\* loadSeeds after the last row (lines 107-109).
loadSeedsReturn ==
  /\ pc = "loadSeeds"
  /\ ri = Len(file)
  /\ CDSBorders' = SortBorders(CDSBorders)
  /\ pc' = "makeSeedBorders"
  /\ UNCHANGED <<file, lowThreshold, highThreshold, topN, ri, seeds, seedBorders,
                 blocks, maxCoverage, meanCDSCoverage, state, bi, subClusters,
                 si, opened, seedRegions, alignmentPairs>>
  /\ UNCHANGED flagVars

makeSeedBorders ==
  /\ pc = "makeSeedBorders"
  /\ seedBorders' = makeSeedBordersOp(seeds)
  /\ pc' = "computeCoverage"
  /\ UNCHANGED <<file, lowThreshold, highThreshold, topN, ri, seeds, CDSBorders,
                 blocks, maxCoverage, meanCDSCoverage, state, bi, subClusters,
                 si, opened, seedRegions, alignmentPairs>>
  /\ UNCHANGED flagVars

\* borders[0] of an empty list raises IndexError.
computeCoverage ==
  /\ pc = "computeCoverage"
  /\ IF seedBorders = <<>>
     THEN /\ pc' = "error"
          /\ UNCHANGED <<blocks, maxCoverage>>
     ELSE /\ blocks' = computeCoverageOp(seedBorders).blocks
          /\ maxCoverage' = computeCoverageOp(seedBorders).maxCoverage
          /\ pc' = "getMeanCDSCoverage"
  /\ UNCHANGED <<file, lowThreshold, highThreshold, topN, ri, seeds, CDSBorders,
                 seedBorders, meanCDSCoverage, state, bi, subClusters, si,
                 opened, seedRegions, alignmentPairs>>
  /\ UNCHANGED flagVars

\* Variant of getMeanCDSCoverage that falls back to a baseline of 1 when the
\* CDS area is 0.
getMeanCDSCoverageDefault ==
  /\ pc = "getMeanCDSCoverage"
  /\ IF CDSBorders = <<>>
     THEN /\ pc' = "error"
          /\ UNCHANGED meanCDSCoverage
     ELSE /\ meanCDSCoverage' = IF getMeanCDSCoverageOp(CDSBorders)[2] = 0
                                 THEN <<1, 1>>
                                 ELSE getMeanCDSCoverageOp(CDSBorders)
          /\ pc' = "labelBlocks"
  /\ UNCHANGED <<file, lowThreshold, highThreshold, topN, ri, seeds, CDSBorders,
                 seedBorders, blocks, maxCoverage, state, bi, subClusters, si,
                 opened, seedRegions, alignmentPairs>>
  /\ UNCHANGED flagVars

\* meanCoverage / CDSArea raises ZeroDivisionError when CDSArea is 0.
getMeanCDSCoverage ==
  /\ pc = "getMeanCDSCoverage"
  /\ IF CDSBorders = <<>> \/ getMeanCDSCoverageOp(CDSBorders)[2] = 0
     THEN /\ pc' = "error"
          /\ UNCHANGED meanCDSCoverage
     ELSE /\ meanCDSCoverage' = getMeanCDSCoverageOp(CDSBorders)
          /\ pc' = "labelBlocks"
  /\ UNCHANGED <<file, lowThreshold, highThreshold, topN, ri, seeds, CDSBorders,
                 seedBorders, blocks, maxCoverage, state, bi, subClusters, si,
                 opened, seedRegions, alignmentPairs>>
  /\ UNCHANGED flagVars

lowThresholdInt == IntOfProduct(lowThreshold, meanCDSCoverage)

highThresholdInt == CeilOfProduct(highThreshold, meanCDSCoverage)

\* The loop of labelBlocks has a block left.
InLoop == pc = "labelBlocks" /\ bi < Len(blocks)

\* What every iteration of labelBlocks' loop does after its branch (line 203).
LabelFrame ==
  /\ bi' = bi + 1
  /\ blocks' = [blocks EXCEPT ![bi + 1].state = state']
  /\ UNCHANGED <<pc, file, lowThreshold, highThreshold, topN, ri, seeds,
                 CDSBorders, seedBorders, maxCoverage, meanCDSCoverage, si,
                 opened, seedRegions, alignmentPairs>>
  /\ UNCHANGED flagVars

labelBlocksStart ==
  /\ InLoop
  /\ state = "start"
  /\ subClusters' = Append(subClusters,
                           SubCluster(blocks[bi + 1].start, NextIndex(subClusters)))
  /\ state' = IF IsLow(blocks[bi + 1], lowThresholdInt) THEN "edge" ELSE "subCluster"
  /\ LabelFrame

\* Variant of labelBlocksSubCluster that closes at block.start.
labelBlocksSubClusterCloseAtStart ==
  /\ InLoop
  /\ state = "subCluster"
  /\ IF IsLow(blocks[bi + 1], lowThresholdInt)
     THEN /\ state' = "bridge"
          /\ subClusters' = [subClusters EXCEPT
                               ![Len(subClusters)] = close(@, blocks[bi + 1].start)]
     ELSE UNCHANGED <<state, subClusters>>
  /\ LabelFrame

labelBlocksSubCluster ==
  /\ InLoop
  /\ state = "subCluster"
  /\ IF IsLow(blocks[bi + 1], lowThresholdInt)
     THEN /\ state' = "bridge"
          /\ subClusters' = [subClusters EXCEPT
                               ![Len(subClusters)] = close(@, blocks[bi + 1].start - 1)]
     ELSE UNCHANGED <<state, subClusters>>
  /\ LabelFrame

labelBlocksBridge ==
  /\ InLoop
  /\ state = "bridge"
  /\ IF IsHigh(blocks[bi + 1], highThresholdInt)
     THEN /\ state' = "subCluster"
          /\ subClusters' = Append(subClusters,
                                   SubCluster(blocks[bi + 1].start,
                                              NextIndex(subClusters)))
     ELSE UNCHANGED <<state, subClusters>>
  /\ LabelFrame

\* Variant of labelBlocksEdge that opens a sub-cluster when it leaves edge.
labelBlocksEdgeOpens ==
  /\ InLoop
  /\ state = "edge"
  /\ IF IsHigh(blocks[bi + 1], highThresholdInt)
     THEN /\ state' = "subCluster"
          /\ subClusters' = Append(subClusters,
                                   SubCluster(blocks[bi + 1].start,
                                              NextIndex(subClusters)))
     ELSE UNCHANGED <<state, subClusters>>
  /\ LabelFrame

labelBlocksEdge ==
  /\ InLoop
  /\ state = "edge"
  /\ state' = IF IsHigh(blocks[bi + 1], highThresholdInt) THEN "subCluster" ELSE state
  /\ UNCHANGED subClusters
  /\ LabelFrame

\* labelBlocks after the loop (lines 205-216).
labelBlocksReturn ==
  /\ pc = "labelBlocks"
  /\ bi = Len(blocks)
  /\ subClusters' = FinishSubClusters(subClusters, blocks)
  /\ pc' = "assignSeedsToSubsclusters"
  /\ UNCHANGED <<file, lowThreshold, highThreshold, topN, ri, seeds, CDSBorders,
                 seedBorders, blocks, maxCoverage, meanCDSCoverage, state, bi,
                 si, opened, seedRegions, alignmentPairs>>
  /\ UNCHANGED flagVars

\* assignSeedsToSubsclusters, one sub-cluster of the outer loop.
assignSeedsToSubsclusters ==
  /\ pc = "assignSeedsToSubsclusters"
  /\ si < Len(subClusters)
  /\ subClusters' = [subClusters EXCEPT
                       ![si + 1] = AssignPass(subClusters[si + 1], seeds).subcluster]
  /\ seeds' = AssignPass(subClusters[si + 1], seeds).seeds
  /\ si' = si + 1
  /\ UNCHANGED <<pc, file, lowThreshold, highThreshold, topN, ri, CDSBorders,
                 seedBorders, blocks, maxCoverage, meanCDSCoverage, state, bi,
                 opened, seedRegions, alignmentPairs>>
  /\ UNCHANGED flagVars

assignSeedsReturn ==
  /\ pc = "assignSeedsToSubsclusters"
  /\ si = Len(subClusters)
  /\ pc' = "printSubClusters"
  /\ UNCHANGED <<file, lowThreshold, highThreshold, topN, ri, seeds, CDSBorders,
                 seedBorders, blocks, maxCoverage, meanCDSCoverage, state, bi,
                 subClusters, si, opened, seedRegions, alignmentPairs>>
  /\ UNCHANGED flagVars

printSubClusters ==
  /\ pc = "printSubClusters"
  /\ opened' = opened \cup {"seedRegions"}
  /\ seedRegions' = RegionLines(subClusters)
  /\ pc' = "printPairs"
  /\ si' = 0
  /\ UNCHANGED <<file, lowThreshold, highThreshold, topN, ri, seeds, CDSBorders,
                 seedBorders, blocks, maxCoverage, meanCDSCoverage, state, bi,
                 subClusters, alignmentPairs>>
  /\ UNCHANGED flagVars

\* printPairs, one sub-cluster of its loop; the file is opened before the loop.
printPairs ==
  /\ pc = "printPairs"
  /\ si < Len(subClusters)
  /\ opened' = opened \cup {"alignmentPairs"}
  /\ subClusters' = [subClusters EXCEPT ![si + 1].seeds = SortSeedsReverse(@)]
  /\ alignmentPairs' = WritePairs(SortSeedsReverse(subClusters[si + 1].seeds), 0,
                                  subClusters[si + 1].index, topN, alignmentPairs)
  /\ si' = si + 1
  /\ UNCHANGED <<pc, file, lowThreshold, highThreshold, topN, ri, seeds,
                 CDSBorders, seedBorders, blocks, maxCoverage, meanCDSCoverage,
                 state, bi, seedRegions>>
  /\ UNCHANGED flagVars

printPairsReturn ==
  /\ pc = "printPairs"
  /\ si = Len(subClusters)
  /\ opened' = opened \cup {"alignmentPairs"}
  /\ pc' = "done"
  /\ UNCHANGED <<file, lowThreshold, highThreshold, topN, ri, seeds, CDSBorders,
                 seedBorders, blocks, maxCoverage, meanCDSCoverage, state, bi,
                 subClusters, si, seedRegions, alignmentPairs>>
  /\ UNCHANGED flagVars

Next ==
  \/ loadSeedsRow
  \/ loadSeedsReturn
  \/ makeSeedBorders
  \/ computeCoverage
  \/ getMeanCDSCoverage
  \/ labelBlocksStart
  \/ labelBlocksSubCluster
  \/ labelBlocksBridge
  \/ labelBlocksEdge
  \/ labelBlocksReturn
  \/ assignSeedsToSubsclusters
  \/ assignSeedsReturn
  \/ printSubClusters
  \/ printPairs
  \/ printPairsReturn

Spec == Init /\ [][Next]_vars

SpecExons == InitExons /\ [][Next]_vars

SpecDegenerate == InitDegenerate /\ [][Next]_vars

\* --------------------------------------------------- flag_top_proteins.py
\* extractFeatureGff: the value of the attribute named feature.
extractFeatureGff(text, feature) == text[feature]

\* The key of a gene-protein pair: gene + "_" + prot.
PairKey(gene, prot) == gene \o <<"_">> \o prot

InitFlag ==
  /\ file = <<>>
  /\ lowThreshold = DefaultLowThreshold
  /\ highThreshold = DefaultHighThreshold
  /\ topN = DefaultTopN
  /\ InitRun
  /\ diamondPairs \in PairFiles
  /\ hints \in HintFiles
  /\ InitFlagRun

\* loadTopPairs, one row of the pairs file (lines 23-27).
loadTopPairsRow ==
  /\ fpc = "loadTopPairs"
  /\ pri < Len(diamondPairs)
  /\ LET row == diamondPairs[pri + 1]
         gene == row.query
     IN  /\ topPairs' = IF gene # prevGene
                        THEN topPairs \cup {PairKey(row.query, row.target)}
                        ELSE topPairs
         /\ prevGene' = gene
  /\ pri' = pri + 1
  /\ UNCHANGED <<fpc, diamondPairs, hints, hi, printed>>
  /\ UNCHANGED splitVars

loadTopPairsReturn ==
  /\ fpc = "loadTopPairs"
  /\ pri = Len(diamondPairs)
  /\ fpc' = "flagHints"
  /\ UNCHANGED <<diamondPairs, hints, pri, prevGene, topPairs, hi, printed>>
  /\ UNCHANGED splitVars

\* flagHints, one row of the hints file (lines 32-38).
flagHintsRow ==
  /\ fpc = "flagHints"
  /\ hi < Len(hints)
  /\ LET row == hints[hi + 1]
         hintProt == extractFeatureGff(row, "prot")
         seedGene == extractFeatureGff(row, "seed_gene_id")
         key == PairKey(seedGene, hintProt)
     IN  printed' = Append(printed,
                           [seed_gene_id |-> row.seed_gene_id, prot |-> row.prot,
                            topProt |-> key \in topPairs])
  /\ hi' = hi + 1
  /\ UNCHANGED <<fpc, diamondPairs, hints, pri, prevGene, topPairs>>
  /\ UNCHANGED splitVars

flagHintsReturn ==
  /\ fpc = "flagHints"
  /\ hi = Len(hints)
  /\ fpc' = "done"
  /\ UNCHANGED <<diamondPairs, hints, pri, prevGene, topPairs, hi, printed>>
  /\ UNCHANGED splitVars

NextFlag ==
  \/ loadTopPairsRow
  \/ loadTopPairsReturn
  \/ flagHintsRow
  \/ flagHintsReturn

SpecFlag == InitFlag /\ [][NextFlag]_vars

\* ------------------------------------------------------- claim vocabulary
\* labelBlocks has returned.
Labelled == pc \in {"assignSeedsToSubsclusters", "printSubClusters", "printPairs", "done"}

\* assignSeedsToSubsclusters has returned.
Assigned == pc \in {"printSubClusters", "printPairs", "done"}

\* computeCoverage has returned.
Swept == pc \in {"getMeanCDSCoverage", "labelBlocks"} \/ Labelled

\* The seeds of the cluster, as loadSeeds builds them from the file.
AllSeeds == LoadAll(file)

Range(s) == {s[i] : i \in DOMAIN s}

\* How often x occurs in the sequence s.
Occurrences(s, x) == Cardinality({i \in DOMAIN s : s[i] = x})

\* The sub-clusters with index >= 1.
RealSubClusters == {i \in DOMAIN subClusters : subClusters[i].index >= 1}

\* Blocks 2..n whose own label is subCluster and whose predecessor's is bridge:
\* the bridge -> subCluster transitions taken so far.
BridgeExits ==
  Cardinality({i \in 2..bi : blocks[i - 1].state = "bridge" /\ blocks[i].state = "subCluster"})

EdgeExits ==
  Cardinality({i \in 2..bi : blocks[i - 1].state = "edge" /\ blocks[i].state = "subCluster"})

\* ---------------------------------------------------------------------- C1
\* C1: when labelBlocks produced N > 1 real sub-clusters, after
\* assignSeedsToSubsclusters no seed is attached to two real sub-clusters or
\* twice to one, and sub-cluster 0 holds every seed of the cluster exactly once.
C1_Partition ==
  (Assigned /\ Len(subClusters) > 1) =>
    /\ subClusters[1].index = 0
    /\ \A i \in 1..Len(AllSeeds) :
         /\ Occurrences(subClusters[1].seeds, AllSeeds[i]) = 1
         /\ Cardinality({<<k, j>> \in (2..Len(subClusters)) \X (1..Len(AllSeeds)) :
                           /\ j \in DOMAIN subClusters[k].seeds
                           /\ subClusters[k].seeds[j] = AllSeeds[i]}) <= 1
    /\ Len(subClusters[1].seeds) = Len(AllSeeds)
    /\ \A k \in 2..Len(subClusters) : Range(subClusters[k].seeds) \subseteq Range(AllSeeds)

\* Two real sub-clusters with seeds, and a seed attached to neither.
C1_Witness ==
  /\ pc = "done"
  /\ Len(subClusters) > 2
  /\ subClusters[2].seeds # <<>>
  /\ subClusters[3].seeds # <<>>
  /\ \E i \in 1..Len(AllSeeds) :
       \A k \in 2..Len(subClusters) : AllSeeds[i] \notin Range(subClusters[k].seeds)

\* ---------------------------------------------------------------------- C2
MinStart(seedMap) == CHOOSE x \in {seedMap[i].start : i \in DOMAIN seedMap} :
                       \A i \in DOMAIN seedMap : x <= seedMap[i].start

MaxEnd(seedMap) == CHOOSE x \in {seedMap[i].end : i \in DOMAIN seedMap} :
                     \A i \in DOMAIN seedMap : x >= seedMap[i].end

\* C2: the blocks of computeCoverage tile the border span: each block ends
\* where the next starts, the first starts at the first border (the least
\* seed start), the last ends at the last border (the greatest seed end + 1),
\* and every block is non-empty.
C2_BlockTiling ==
  Swept =>
    /\ blocks # <<>>
    /\ \A i \in 1..(Len(blocks) - 1) : blocks[i].end = blocks[i + 1].start
    /\ \A i \in 1..Len(blocks) : blocks[i].start < blocks[i].end
    /\ blocks[1].start = seedBorders[1].coordinate
    /\ blocks[1].start = MinStart(AllSeeds)
    /\ blocks[Len(blocks)].end = seedBorders[Len(seedBorders)].coordinate
    /\ blocks[Len(blocks)].end = MaxEnd(AllSeeds) + 1

\* Three blocks or more, one of them a zero-coverage stretch.
C2_Witness ==
  /\ Swept
  /\ Len(blocks) >= 3
  /\ \E i \in 1..Len(blocks) : blocks[i].coverage = 0

\* ---------------------------------------------------------------------- C3
\* C3: labelBlocks changes its state only by start -> edge (first block,
\* coverage <= low), start -> subCluster (first block, coverage > low),
\* subCluster -> bridge (coverage <= low), bridge -> subCluster (coverage >=
\* high) and edge -> subCluster (coverage >= high); start is left on the first
\* block and never entered again.
C3_Step ==
  /\ state' # state =>
       /\ InLoop
       /\ \/ /\ state = "start" /\ state' = "edge" /\ bi = 0
             /\ blocks[bi + 1].coverage <= lowThresholdInt
          \/ /\ state = "start" /\ state' = "subCluster" /\ bi = 0
             /\ blocks[bi + 1].coverage > lowThresholdInt
          \/ /\ state = "subCluster" /\ state' = "bridge"
             /\ blocks[bi + 1].coverage <= lowThresholdInt
          \/ /\ state = "bridge" /\ state' = "subCluster"
             /\ blocks[bi + 1].coverage >= highThresholdInt
          \/ /\ state = "edge" /\ state' = "subCluster"
             /\ blocks[bi + 1].coverage >= highThresholdInt
  /\ (bi = 0 /\ bi' = 1) => (state = "start" /\ state' # "start")
  /\ state' = "start" => (state = "start" /\ bi' = 0)

C3_TransitionTable == [][C3_Step]_vars

\* One sweep that took start -> edge, edge -> subCluster, subCluster -> bridge
\* and bridge -> subCluster.
C3_Witness ==
  /\ Labelled
  /\ blocks[1].state = "edge"
  /\ EdgeExits = 1
  /\ BridgeExits >= 1

\* ---------------------------------------------------------------------- C4
\* C4: at every point of labelBlocks' sweep and after it, the number of real
\* sub-clusters is 1 plus the number of bridge -> subCluster transitions taken;
\* an edge -> subCluster transition adds none.
C4_CreatedOnlyByBridgeExit ==
  /\ (pc = "labelBlocks" /\ bi >= 1) => Len(subClusters) = 1 + BridgeExits
  /\ Labelled =>
       (IF Len(subClusters) = 1 THEN 1 ELSE Len(subClusters) - 1) = 1 + BridgeExits

\* A finished sweep with an edge -> subCluster and a bridge -> subCluster
\* transition.
C4_Witness ==
  /\ Labelled
  /\ EdgeExits = 1
  /\ BridgeExits = 1
  /\ Len(subClusters) = 3

\* ---------------------------------------------------------------------- C5
\* Every block of the coverage profile has coverage strictly above low.
AllAboveLow == \A i \in 1..Len(blocks) : blocks[i].coverage > lowThresholdInt

\* C5: when every block has coverage > low, labelBlocks returns exactly one
\* sub-cluster, with index 0, spanning [first block start, last block end - 1],
\* and after assignSeedsToSubsclusters its seed list holds every seed of the
\* cluster exactly once.
C5_SingleCluster ==
  (Labelled /\ AllAboveLow) =>
    /\ Len(subClusters) = 1
    /\ subClusters[1].index = 0
    /\ subClusters[1].start = blocks[1].start
    /\ subClusters[1].end = blocks[Len(blocks)].end - 1
    /\ Assigned =>
         /\ Len(subClusters[1].seeds) = Len(AllSeeds)
         /\ \A i \in 1..Len(AllSeeds) :
              Occurrences(subClusters[1].seeds, AllSeeds[i]) = 1

\* A profile of several blocks, all above low, with several seeds attached.
C5_Witness ==
  /\ pc = "done"
  /\ AllAboveLow
  /\ Len(blocks) >= 3
  /\ Len(subClusters[1].seeds) >= 3

\* ---------------------------------------------------------------------- C6
\* C6: in labelBlocks' result index 0 occurs exactly once, first.  With more
\* than one real sub-cluster (a bridge -> subCluster transition was taken) the
\* first entry spans [first block start, last block end - 1] and the real
\* sub-clusters follow, numbered 1..N, in strictly increasing start order; with
\* exactly one the list is that one entry, numbered 0.
C6_Numbering ==
  Labelled =>
    /\ subClusters[1].index = 0
    /\ Cardinality({i \in DOMAIN subClusters : subClusters[i].index = 0}) = 1
    /\ BridgeExits >= 1 =>
         /\ Len(subClusters) = BridgeExits + 2
         /\ subClusters[1].start = blocks[1].start
         /\ subClusters[1].end = blocks[Len(blocks)].end - 1
         /\ \A k \in 2..Len(subClusters) : subClusters[k].index = k - 1
         /\ \A k \in 2..(Len(subClusters) - 1) :
              subClusters[k].start < subClusters[k + 1].start
    /\ BridgeExits = 0 => Len(subClusters) = 1

\* Three real sub-clusters behind the synthetic one.
C6_Witness ==
  /\ Labelled
  /\ Len(subClusters) = 4
  /\ subClusters[4].index = 3

\* ---------------------------------------------------------------------- C7
\* The seed's start lies in the margin window of sub-cluster k.
InWindow(seed, k) ==
  /\ subClusters[k].start - MARGIN <= seed.start
  /\ seed.start <= subClusters[k].end

AttachedTo(seed, k) == seed \in Range(subClusters[k].seeds)

AttachedToNone(seed) == \A k \in RealSubClusters : ~AttachedTo(seed, k)

\* The seed starts after the end of every real sub-cluster before k.
StartsPastEarlier(seed, k) ==
  \A j \in RealSubClusters : j < k => seed.start > subClusters[j].end

\* C7 as claimed: for every real sub-cluster S and every seed whose start lies
\* in [S.start - 100, S.end], the seed is attached to S when its end is
\* S.end + 100 and to no real sub-cluster when its end is S.end + 101.
C7_AsClaimed ==
  Assigned =>
    \A k \in RealSubClusters : \A i \in 1..Len(AllSeeds) :
      InWindow(AllSeeds[i], k) =>
        /\ AllSeeds[i].end = subClusters[k].end + MARGIN => AttachedTo(AllSeeds[i], k)
        /\ AllSeeds[i].end = subClusters[k].end + MARGIN + 1 => AttachedToNone(AllSeeds[i])

\* C7 (amended): the same for every seed whose start lies in
\* [S.start - 100, S.end] and after the end of every earlier real sub-cluster.
C7_MarginBoundary ==
  Assigned =>
    \A k \in RealSubClusters : \A i \in 1..Len(AllSeeds) :
      (InWindow(AllSeeds[i], k) /\ StartsPastEarlier(AllSeeds[i], k)) =>
        /\ AllSeeds[i].end = subClusters[k].end + MARGIN => AttachedTo(AllSeeds[i], k)
        /\ AllSeeds[i].end = subClusters[k].end + MARGIN + 1 => AttachedToNone(AllSeeds[i])

\* One seed ending exactly MARGIN past its sub-cluster's end, attached, and
\* one ending MARGIN + 1 past its sub-cluster's end, attached nowhere.
C7_Witness ==
  /\ Assigned
  /\ \E k \in RealSubClusters : \E i \in 1..Len(AllSeeds) :
       /\ InWindow(AllSeeds[i], k) /\ StartsPastEarlier(AllSeeds[i], k)
       /\ AllSeeds[i].end = subClusters[k].end + MARGIN
       /\ AttachedTo(AllSeeds[i], k)
  /\ \E k \in RealSubClusters : \E i \in 1..Len(AllSeeds) :
       /\ InWindow(AllSeeds[i], k) /\ StartsPastEarlier(AllSeeds[i], k)
       /\ AllSeeds[i].end = subClusters[k].end + MARGIN + 1
       /\ AttachedToNone(AllSeeds[i])

\* ---------------------------------------------------------------------- C8
\* C8 as claimed: when every block has coverage >= low the run succeeds and
\* labelBlocks produces exactly one sub-cluster, with index 0.
C8_AsClaimed ==
  (Labelled /\ \A i \in 1..Len(blocks) : blocks[i].coverage >= lowThresholdInt) =>
    /\ Len(subClusters) = 1
    /\ subClusters[1].index = 0

\* C8 (amended): when every block has coverage > low the run does not fail,
\* labelBlocks produces exactly one sub-cluster, with index 0, and the region
\* file gets that one region and no duplicate of it.
C8_NoOp ==
  /\ (Labelled /\ AllAboveLow) =>
       /\ Len(subClusters) = 1
       /\ subClusters[1].index = 0
       /\ pc = "done" => /\ Len(seedRegions) = 1
                         /\ seedRegions[1].index = 0
  /\ (pc = "error") => file = <<>>

\* A finished run over a profile of several blocks, all above low.
C8_Witness ==
  /\ pc = "done"
  /\ AllAboveLow
  /\ Len(blocks) >= 2
  /\ Len(seedRegions) = 1

\* ---------------------------------------------------------------------- C9
\* The file with its rows in the order p, a permutation of 1..Len(file).
Permuted(p) == [i \in 1..Len(file) |-> file[p[i]]]

\* The rows of the sequence rows that carry the seed identifier id.
RowsOf(rows, id) == SelectSeq(rows, LAMBDA r : r.id = id)

\* The float sum of the rows' scores, added in the order of the rows.
RECURSIVE ScoreSum(_)
ScoreSum(rows) ==
  IF Len(rows) = 1 THEN ParseFloat(rows[1].score)
  ELSE FAdd(ScoreSum(SubSeq(rows, 1, Len(rows) - 1)), ParseFloat(rows[Len(rows)].score))

\* C9 as claimed: the merged seed of every seed identifier has the least row
\* start, the greatest row end and the sum of the row scores, whatever the
\* order of the rows in the file.
C9_AsClaimed ==
  (pc = "makeSeedBorders") =>
    \A i \in 1..Len(seeds) : \A p \in Permutations(1..Len(file)) :
      LET mine == RowsOf(Permuted(p), seeds[i].id)
      IN  /\ \A j \in 1..Len(mine) : seeds[i].start <= mine[j].start
          /\ \E j \in 1..Len(mine) : seeds[i].start = mine[j].start
          /\ \A j \in 1..Len(mine) : seeds[i].end >= mine[j].end
          /\ \E j \in 1..Len(mine) : seeds[i].end = mine[j].end
          /\ seeds[i].score = ScoreSum(mine)

\* --------------------------------------------------------------------- C10
\* The lines of the pairs file that carry sub-cluster k's index.
PairsOf(k) == SelectSeq(alignmentPairs, LAMBDA l : l.index = subClusters[k].index)

\* C10 as claimed: for every sub-cluster, printPairs writes
\* min(number of its seeds, maxProteinsPerSeed) pairs, in non-increasing score
\* order, and no seed left out scores higher than a seed written.
C10_AsClaimed ==
  (pc = "done") =>
    \A k \in 1..Len(subClusters) :
      LET out == PairsOf(k)
          sds == subClusters[k].seeds
      IN  /\ Len(out) = Min2(Len(sds), topN)
          /\ \A j \in 1..(Len(out) - 1) : out[j].score >= out[j + 1].score
          /\ \A j \in 1..Len(out) : \E m \in 1..Len(sds) :
               sds[m].id = out[j].id /\ Round2(sds[m].score) = out[j].score
          /\ \A m \in 1..Len(sds) :
               (\A j \in 1..Len(out) : out[j].id # sds[m].id) =>
                 \A j \in 1..Len(out) : out[j].score >= Round2(sds[m].score)

\* --------------------------------------------------------------------- C11
\* The coordinates that some CDS row of the file covers.
CDSCovered == UNION {file[i].start .. file[i].end : i \in DOMAIN file}

\* split has got past getMeanCDSCoverage.
PastBaseline == pc = "labelBlocks" \/ Labelled

\* What is true of a degenerate run in every state, and of every failed run.
C11_State ==
  /\ (CDSCovered = {}) =>
       /\ ~PastBaseline
       /\ pc # "done"
       /\ meanCDSCoverage = <<0, 0>>
  /\ (pc = "error") =>
       /\ opened = {}
       /\ seedRegions = <<>>
       /\ alignmentPairs = <<>>

\* The step a degenerate run takes from computeCoverage (no rows) or from
\* getMeanCDSCoverage (rows that cover nothing).
C11_Step ==
  (CDSCovered = {}) =>
    /\ (pc = "computeCoverage" /\ file = <<>>) => pc' = "error"
    /\ (pc = "getMeanCDSCoverage") => pc' = "error"

FirstOfQuery(j) ==
  \A k \in 1..(j - 1) : diamondPairs[k].query # diamondPairs[j].query

\* The hint row's (seed_gene_id, prot) is the (query, target) of the first row
\* of some query.
IsTopPair(row) ==
  \E j \in DOMAIN diamondPairs :
    /\ FirstOfQuery(j)
    /\ diamondPairs[j].query = row.seed_gene_id
    /\ diamondPairs[j].target = row.prot

\* C12 as claimed: flagHints prints every hint row once, in input order, and
\* flags a row with topProt=TRUE; if and only if its (seed_gene_id, prot) pair
\* is the (query, target) pair of the first row of some query.
C12_AsClaimed ==
  (fpc = "done") =>
    /\ Len(printed) = Len(hints)
    /\ \A i \in DOMAIN hints :
         /\ printed[i].seed_gene_id = hints[i].seed_gene_id
         /\ printed[i].prot = hints[i].prot
         /\ printed[i].topProt <=> IsTopPair(hints[i])

\* --------------------------------------------------------------------- C13
\* The blocks on which labelBlocks took the subCluster -> bridge transition.
ValleyEntries ==
  {i \in 2..bi : blocks[i - 1].state = "subCluster" /\ blocks[i].state = "bridge"}

\* How many sub-clusters labelBlocks had created when it processed block i.
CreatedBy(i) ==
  1 + Cardinality({j \in 2..i : blocks[j - 1].state = "bridge"
                                  /\ blocks[j].state = "subCluster"})

\* Where the n-th sub-cluster created stands in the list labelBlocks returns.
ReturnedAt(n) == IF Len(subClusters) = 1 THEN 1 ELSE n + 1

\* C13 as claimed: for every block b on which labelBlocks took the
\* subCluster -> bridge transition, the sub-cluster open at that moment has
\* end = b.start - 1 in the returned list (the post-sweep close changes no
\* sub-cluster that a valley already closed).
C13_AsClaimed ==
  Labelled =>
    \A i \in ValleyEntries :
      subClusters[ReturnedAt(CreatedBy(i))].end = blocks[i].start - 1

\* C13: for every block b on which labelBlocks took the subCluster -> bridge
\* transition, the sub-cluster open at that moment has end = b.start - 1 in
\* the returned list unless it is the last one created; the last sub-cluster
\* created ends at the last block's end - 1, whether the sweep left it open
\* or a valley had closed it.
C13_ClosingOnValley ==
  Labelled =>
    /\ \A i \in ValleyEntries :
         CreatedBy(i) < CreatedBy(Len(blocks)) =>
           subClusters[ReturnedAt(CreatedBy(i))].end = blocks[i].start - 1
    /\ subClusters[Len(subClusters)].end = blocks[Len(blocks)].end - 1

\* A sweep with two valleys that ends in bridge: the first sub-cluster keeps
\* the end its valley gave it, the second is closed again after the sweep.
C13_Witness ==
  /\ Labelled
  /\ state = "bridge"
  /\ Cardinality(ValleyEntries) = 2
  /\ Len(subClusters) = 3
  /\ subClusters[3].end > subClusters[3].start

\* --------------------------------------------------------------------- C14
\* The number of seeds s of seedMap with s.start <= x <= s.end.
SeedCount(seedMap, x) ==
  Cardinality({i \in DOMAIN seedMap : seedMap[i].start <= x /\ x <= seedMap[i].end})

\* The seeds of seedMap in the order p.
PermutedSeeds(seedMap, p) == [i \in DOMAIN seedMap |-> seedMap[p[i]]]

\* The orders that reverse n seeds or exchange two of them: whichever two
\* borders share a coordinate, one of these orders exchanges them.
Reorderings(n) ==
  {[i \in 1..n |-> n + 1 - i]}
  \cup {[i \in 1..n |-> IF i = a THEN b ELSE IF i = b THEN a ELSE i] :
          a \in 1..n, b \in 1..n}

\* C14: when computeCoverage returns, every block has, at each coordinate
\* from its start to its end - 1, coverage equal to the number of seeds over
\* that coordinate; adjacent blocks differ in coverage; maxCoverage is the
\* largest number of seeds over one coordinate; and the blocks and maxCoverage
\* are the same when the seeds, and so the borders sharing a coordinate, come
\* in reverse order or with any two of them exchanged.
C14_SweepCorrectness ==
  (pc = "getMeanCDSCoverage") =>
    LET all == AllSeeds
        span == MinStart(all) .. MaxEnd(all)
    IN  /\ \A i \in DOMAIN blocks :
             \A x \in blocks[i].start .. (blocks[i].end - 1) :
               blocks[i].coverage = SeedCount(all, x)
        /\ \A i \in 1..(Len(blocks) - 1) :
             blocks[i].coverage # blocks[i + 1].coverage
        /\ \A x \in span : SeedCount(all, x) <= maxCoverage
        /\ \E x \in span : SeedCount(all, x) = maxCoverage
        /\ \A p \in Reorderings(Len(all)) :
             computeCoverageOp(makeSeedBordersOp(PermutedSeeds(all, p)))
               = [blocks |-> blocks, maxCoverage |-> maxCoverage]

\* A start border sorted before another seed's end border on the same
\* coordinate: the running depth is one too high between the two.
C14_Witness ==
  /\ pc = "getMeanCDSCoverage"
  /\ Len(AllSeeds) = 3
  /\ maxCoverage = 2
  /\ \E i \in 1..(Len(seedBorders) - 1) :
       /\ seedBorders[i].coordinate = seedBorders[i + 1].coordinate
       /\ seedBorders[i].start
       /\ ~seedBorders[i + 1].start

\* --------------------------------------------------------------------- C15
\* One pass of assignSeedsToSubsclusters' outer loop, over subClusters[si + 1].
C15_Step ==
  (pc = "assignSeedsToSubsclusters" /\ si' = si + 1) =>
    LET sc == subClusters[si + 1]
    IN  /\ (sc.index = 0) => seeds' = seeds
        /\ (sc.index # 0) =>
             \A i \in DOMAIN seeds :
               (seeds[i].start > sc.end) =>
                 /\ seeds[i] \in Range(seeds')
                 /\ seeds[i] \notin Range(subClusters'[si + 1].seeds)

\* C15: the pass over sub-cluster 0 leaves the seed mapping as it was, and
\* the pass over any other sub-cluster neither removes from the mapping nor
\* attaches to that sub-cluster a seed that starts after the sub-cluster's end.
C15_Frame == [][C15_Step]_vars

\* After the pass over a real sub-cluster that was given a seed, a seed
\* starting within the margin behind its end is still in the mapping.
C15_Witness ==
  /\ pc = "assignSeedsToSubsclusters"
  /\ si >= 2
  /\ subClusters[si].seeds # <<>>
  /\ \E i \in DOMAIN seeds :
       /\ seeds[i].start > subClusters[si].end
       /\ seeds[i].start <= subClusters[si].end + MARGIN

\* --------------------------------------------------------------------- C16
\* Sub-cluster k is the first real sub-cluster that ends at or after the
\* seed's start.
FirstReached(seed, k) ==
  /\ seed.start <= subClusters[k].end
  /\ \A j \in RealSubClusters : j < k => seed.start > subClusters[j].end

\* The declarative rule: the seed belongs to real sub-cluster k.
BelongsTo(seed, k) ==
  /\ FirstReached(seed, k)
  /\ subClusters[k].start - MARGIN <= seed.start
  /\ seed.end <= subClusters[k].end + MARGIN

\* C16: after assignSeedsToSubsclusters a seed is attached (once) to real
\* sub-cluster Si exactly when i is the smallest index with
\* seed.start <= Si.end, Si.start - 100 <= seed.start and
\* seed.end <= Si.end + 100; and, when there are real sub-clusters, every seed
\* has exactly one such first sub-cluster, the only one it is tested against.
C16_DeclarativeRule ==
  Assigned =>
    LET all == AllSeeds
    IN  \A i \in DOMAIN all :
          /\ \A k \in RealSubClusters :
               /\ AttachedTo(all[i], k) <=> BelongsTo(all[i], k)
               /\ Occurrences(subClusters[k].seeds, all[i]) <= 1
          /\ (RealSubClusters # {}) =>
               Cardinality({k \in RealSubClusters : FirstReached(all[i], k)}) = 1

\* A seed attached to the second real sub-cluster that starts in the margin
\* before it, next to a seed that no real sub-cluster was given.
C16_Witness ==
  /\ Assigned
  /\ Len(subClusters) >= 3
  /\ \E i \in DOMAIN AllSeeds :
       /\ AttachedTo(AllSeeds[i], 3)
       /\ AllSeeds[i].start < subClusters[3].start
  /\ \E i \in DOMAIN AllSeeds : AttachedToNone(AllSeeds[i])

\* --------------------------------------------------------------------- C17
\* The real sub-clusters of the returned list, left to right: the only entry,
\* or the entries behind the synthetic sub-cluster 0.
RealList == IF Len(subClusters) = 1 THEN subClusters ELSE Tail(subClusters)

\* C17: every sub-cluster labelBlocks returns has start <= end; the
\* first real sub-cluster starts at the first block's start, the last real
\* sub-cluster ends at the last block's end - 1, and each real sub-cluster
\* ends before the next one starts.
C17_WellFormed ==
  Labelled =>
    /\ \A k \in DOMAIN subClusters : subClusters[k].start <= subClusters[k].end
    /\ RealList[1].start = blocks[1].start
    /\ RealList[Len(RealList)].end = blocks[Len(blocks)].end - 1
    /\ \A i \in 1..(Len(RealList) - 1) : RealList[i].end < RealList[i + 1].start

\* Three real sub-clusters, the middle one a single base wide.
C17_Witness ==
  /\ Labelled
  /\ Len(RealList) = 3
  /\ RealList[2].start = RealList[2].end
  /\ RealList[1].end + 1 < RealList[2].start

\* --------------------------------------------------------------------- C18
\* C18: when assignSeedsToSubsclusters returns, the seed mapping is empty if
\* labelBlocks gave more than one real sub-cluster (every seed was attached to
\* a real sub-cluster or dropped), and is what loadSeeds built if labelBlocks
\* gave the single sub-cluster 0.
C18_Consumed ==
  Assigned =>
    /\ (Len(subClusters) > 1) => seeds = <<>>
    /\ (Len(subClusters) = 1) => seeds = AllSeeds

\* A split cluster with a dropped seed whose mapping has been emptied.
C18_Witness ==
  /\ Assigned
  /\ Len(subClusters) = 3
  /\ seeds = <<>>
  /\ \E i \in DOMAIN AllSeeds : AttachedToNone(AllSeeds[i])
  /\ \E i \in DOMAIN AllSeeds : AttachedTo(AllSeeds[i], 3)

====
